---------------------------- MODULE Spec2Model ----------------------------
(***************************************************************************)
(* A model of the agentdex command line client.                            *)
(*                                                                         *)
(*   - the event builder  (createProfileEvent, createKind0Event,           *)
(*     createNote) and the metadata update (updateKind0)                   *)
(*   - the directory API client (AgentdexClient)                           *)
(*   - the relay publisher (publishToRelays)                               *)
(*   - the wallet-connect payment (payInvoice)                             *)
(*   - the key resolution (resolveKey, parseSecretKey)                     *)
(*   - the register, claim and publish commands with the payment poll loop *)
(*                                                                         *)
(* Eight specifications share the module. Each starts the variables of the *)
(* parts it does not run in their idle value and leaves them unchanged.    *)
(*   SpecProfile    builds a record from a bounded profile                 *)
(*   SpecClient     performs one client call against a bounded response    *)
(*   SpecPublish    runs one publishToRelays call, attempt by attempt      *)
(*   SpecTransport  runs one publishToRelays call and one payInvoice call  *)
(*   SpecKind0Event builds a kind 0 record from a bounded profile          *)
(*   SpecKind0      runs one updateKind0 call with its publishToRelays call *)
(*   SpecKey        runs resolveKey, the first step of a command, over     *)
(*                  every key source                                       *)
(*   Spec           runs one register, claim or publish command            *)
(*                                                                         *)
(* An optional JavaScript value is a sequence of length 0 (undefined) or 1 *)
(* (the value).  Signing, key encoding and the wall-clock created_at are   *)
(* library calls and are left out of a record: a record is its kind, its   *)
(* tags and its content.  Time is counted in seconds.                      *)
(*                                                                         *)
(* createProfileEvent is the kind 31337 builder, whose AgentProfile has    *)
(* the fields the commands pass (name, website, lightning, ownerX);        *)
(* publishToRelays is the variant with the per-endpoint timeout, which     *)
(* without its timers is the other variant.                                *)
(***************************************************************************)
EXTENDS Integers, Sequences, FiniteSets, TLC

VARIABLES
    \* ---- event builder
    profile,      \* the AgentProfile handed to createProfileEvent
    event,        \* <<>> before the call, <<record>> after it
    \* ---- directory API client
    apiCall,      \* [method, res]: the method called and the HTTP response it gets
    apiOutcome,   \* <<>> before the call, <<outcome>> after it
    \* ---- relay publisher
    relays,       \* the endpoint list of the call
    pubState,     \* per endpoint: pool.publish's promise
    attempt,      \* per endpoint: the raced promise allSettled waits for
    clock,        \* seconds since the call started
    pubStage,     \* "idle", "running", "returned"
    published,    \* the list the call returns
    poolClosed,   \* pool.close(relays) has run
    \* ---- metadata update (updateKind0)
    stored,       \* the kind 0 records the relays hold for the author
    updates,      \* the updates argument
    query,        \* pool.querySync's promise
    raceClock,    \* seconds since the race of the query and its timer started
    k0Stage,      \* "idle", "racing", "publishing", "returned", "threw"
    existing,     \* the local existing: the object to republish
    republished,  \* <<>> or <<record>>: the record handed to publishToRelays
    queryPoolClosed, \* the finally's pool.close(relays) has run
    \* ---- wallet-connect payment
    payStage,     \* "idle", "paying", "returned", "threw": where payInvoice is
    wallet,       \* "none", "open", "closed": the NWCClient of the call
    \* ---- command
    cmd,          \* "register", "claim" or "publish"
    options,      \* the parsed command line options and environment
    keys,         \* where a key may come from: --nsec, NOSTR_NSEC, the --key-file file
    sk,           \* <<>> before resolveKey, <<outcome>> after it
    pc,           \* the command's position
    httpStatus,   \* the HTTP status the submit was answered with, 0 while there is none
    result,       \* <<>> or <<body>>: what client.register / client.claim returned
    now,          \* Date.now() in seconds since the command started
    startTime,    \* the poll loop's startTime
    delayed,      \* seconds the status checks took so far
    nSleeps,      \* poll-interval sleeps completed
    nChecks,      \* status checks completed
    nPaid,        \* status checks that reported paid
    nPayCalls,    \* payInvoice calls made
    out,          \* what the command printed, in order
    publishes,    \* the publishToRelays calls made, in order
    exitCode      \* <<>> while running, <<0>> after return, <<1>> after process.exit(1)

evVars  == <<profile, event>>
apiVars == <<apiCall, apiOutcome>>
pubVars == <<relays, pubState, attempt, clock, pubStage, published, poolClosed>>
cmdVars == <<cmd, options, keys, sk, pc, httpStatus, result, now, startTime, delayed, nSleeps, nChecks,
             nPaid, nPayCalls, out, publishes, exitCode>>
payVars == <<payStage, wallet>>
metaVars == <<stored, updates, query, raceClock, k0Stage, existing, republished, queryPoolClosed>>
vars    == <<evVars, apiVars, pubVars, payVars, metaVars, cmdVars>>

\* ------------------------------------------------------------------------
\* Optional values and JavaScript truthiness

None == <<>>
Some(v) == <<v>>
IsPresent(o) == o # <<>>

\* if (x) for a string: undefined and "" are falsy
TruthyStr(o) == o # <<>> /\ o[1] # ""
\* if (x) for a number: undefined and 0 are falsy
TruthyNum(o) == o # <<>> /\ o[1] # 0
\* if (x) for an array: only undefined is falsy, [] is truthy
TruthyArr(o) == o # <<>>
\* if (x) for a boolean: undefined and false are falsy
TruthyBool(o) == o # <<>> /\ o[1]

Digits == <<"0", "1", "2", "3", "4", "5", "6", "7", "8", "9">>

RECURSIVE String(_)
\* String(n) of a non-negative integer: its decimal digits
String(n) == IF n < 10 THEN Digits[n + 1] ELSE String(n \div 10) \o Digits[(n % 10) + 1]

RECURSIVE Flatten(_)
Flatten(ss) == IF ss = <<>> THEN <<>> ELSE Head(ss) \o Flatten(Tail(ss))

RECURSIVE SeqsUpTo(_, _)
\* the sequences over S of length at most n
SeqsUpTo(S, n) ==
    IF n = 0 THEN {<<>>}
    ELSE LET shorter == SeqsUpTo(S, n - 1)
         IN  shorter \cup {Append(q, x) : q \in shorter, x \in S}

\* ------------------------------------------------------------------------
\* Bounds of the inputs

\* most fields of a profile that are populated at once
MaxPopulated == 2
\* most user-supplied --relay values of a register or claim run
MaxExtraRelays == 1
\* most user-supplied --relay values of a publish run
MaxNoteRelays == 2
\* most seconds the status checks of one poll loop take in total
MaxDelay == 1
\* most characters of a --capabilities value
MaxRawLen == 3

\* ------------------------------------------------------------------------
\* Event builder: createProfileEvent

StrFields == {"name", "description", "framework", "model", "website", "avatar",
              "lightning", "human", "ownerX", "status", "messagingPolicy"}
NumFields == {"messagingMinTrust", "messagingFee"}
ListFields == {"capabilities", "skills", "experience"}
ProfileFields == StrFields \cup NumFields \cup ListFields \cup {"portfolio"}

\* the values a populated field is drawn from, three per field
StrValues == <<"", "Echo", "active">>
NumValues == <<0, 7, 12>>
ListValues == << <<>>, <<"chat">>, <<"chat", "">> >>
PortfolioValues ==
    << <<>>,
       <<[url |-> "https://a", name |-> None, description |-> Some("demo")]>>,
       <<[url |-> "https://a", name |-> Some("A"), description |-> None],
         [url |-> "https://b", name |-> Some(""), description |-> Some("second")]>> >>

FieldValues(f) ==
    IF f \in StrFields THEN StrValues
    ELSE IF f \in NumFields THEN NumValues
    ELSE IF f \in ListFields THEN ListValues
    ELSE PortfolioValues

EmptyProfile == [f \in ProfileFields |-> None]

RECURSIVE ListTags(_, _)
\* for (const x of list) tags.push([key, x])
ListTags(key, list) ==
    IF list = <<>> THEN <<>> ELSE <<(<<key, Head(list)>>)>> \o ListTags(key, Tail(list))

\* const tag = ['portfolio', item.url]; optional name, optional description
PortfolioTag(item) ==
    <<"portfolio", item.url>>
        \o (IF TruthyStr(item.name) THEN <<item.name[1]>> ELSE <<>>)
        \o (IF TruthyStr(item.description) THEN <<item.description[1]>> ELSE <<>>)

RECURSIVE PortfolioTags(_)
PortfolioTags(items) ==
    IF items = <<>> THEN <<>> ELSE <<PortfolioTag(Head(items))>> \o PortfolioTags(Tail(items))

\* if (profile.f) tags.push([key, profile.f])
StrTag(p, f, key) == IF TruthyStr(p[f]) THEN <<(<<key, p[f][1]>>)>> ELSE <<>>

\* if (profile.status) tags.push(['status', profile.status || 'active'])
StatusTag(p) ==
    IF TruthyStr(p["status"])
    THEN <<(<<"status", IF TruthyStr(p["status"]) THEN p["status"][1] ELSE "active">>)>>
    ELSE <<>>

\* if (profile.f) tags.push([key, String(profile.f)])
NumTag(p, f, key) == IF TruthyNum(p[f]) THEN <<(<<key, String(p[f][1])>>)>> ELSE <<>>

\* if (profile.f) { for (const x of profile.f) tags.push([key, x]) }
ArrTags(p, f, key) == IF TruthyArr(p[f]) THEN ListTags(key, p[f][1]) ELSE <<>>

ProfileTags(p) ==
    <<(<<"d", "agentdex-profile">>)>>
        \o StrTag(p, "name", "name")
        \o StrTag(p, "description", "description")
        \o ArrTags(p, "capabilities", "capability")
        \o StrTag(p, "framework", "framework")
        \o StrTag(p, "model", "model")
        \o StrTag(p, "website", "website")
        \o StrTag(p, "avatar", "avatar")
        \o StrTag(p, "human", "human")
        \o StrTag(p, "ownerX", "owner_x")
        \o StatusTag(p)
        \o StrTag(p, "messagingPolicy", "messaging_policy")
        \o NumTag(p, "messagingMinTrust", "messaging_min_trust")
        \o NumTag(p, "messagingFee", "messaging_fee")
        \o (IF TruthyArr(p["portfolio"]) THEN PortfolioTags(p["portfolio"][1]) ELSE <<>>)
        \o ArrTags(p, "skills", "skill")
        \o ArrTags(p, "experience", "experience")

\* the kind 31339 builder of the profile's agent-specific fields: no name, website,
\* avatar or human tag
createAgentEvent(p) ==
    [kind |-> 31339,
     tags |-> SelectSeq(ProfileTags(p),
                        LAMBDA t : t[1] \notin {"name", "website", "avatar", "human"}),
     content |-> ""]

createProfileEvent(p) == [kind |-> 31337, tags |-> ProfileTags(p), content |-> ""]

\* ------------------------------------------------------------------------
\* The profile the register and claim commands hand to createProfileEvent

\* a --capabilities value is a string, modelled as its characters
RawChars == {"a", ",", " "}

RawCapabilities == SeqsUpTo(RawChars, MaxRawLen)

RECURSIVE Str(_)
\* the string of a sequence of characters
Str(cs) == IF cs = <<>> THEN "" ELSE Head(cs) \o Str(Tail(cs))

RECURSIVE SplitFrom(_, _)
\* the pieces of cs between commas, `cur` being the piece read so far
SplitFrom(cs, cur) ==
    IF cs = <<>> THEN <<cur>>
    ELSE IF Head(cs) = "," THEN <<cur>> \o SplitFrom(Tail(cs), <<>>)
    ELSE SplitFrom(Tail(cs), Append(cur, Head(cs)))

\* s.split(','): "" gives [""], "a," gives ["a", ""]
Split(cs) == SplitFrom(cs, <<>>)

RECURSIVE TrimStart(_)
TrimStart(cs) == IF cs # <<>> /\ Head(cs) = " " THEN TrimStart(Tail(cs)) ELSE cs

RECURSIVE TrimEnd(_)
TrimEnd(cs) ==
    IF cs # <<>> /\ cs[Len(cs)] = " " THEN TrimEnd(SubSeq(cs, 1, Len(cs) - 1)) ELSE cs

\* s.trim()
Trim(cs) == TrimEnd(TrimStart(cs))

\* options.capabilities?.split(',').map((s) => s.trim())
ParseCapabilities(o) ==
    IF o = None THEN None
    ELSE LET pieces == Split(o[1])
         IN  Some([i \in 1..Len(pieces) |-> Str(Trim(pieces[i]))])

\* createProfileEvent(sk, { name, description, capabilities, ..., status: 'active' }) of
\* register, createProfileEvent(sk, { name, status: 'active' }) of claim; the name is
\* given on the command line and the other options of register are not
CommandProfile(opts) ==
    [EmptyProfile EXCEPT !["name"] = Some(opts.name),
                         !["capabilities"] = ParseCapabilities(opts.capabilities),
                         !["status"] = Some("active")]

\* ------------------------------------------------------------------------
\* Specification of the event builder

IdleEv == profile = EmptyProfile /\ event = None

\* a profile with a few populated fields, or the profile register builds
InitProfile ==
    /\ \/ \E S \in SUBSET ProfileFields :
             /\ Cardinality(S) <= MaxPopulated
             /\ \E choice \in [S -> 1..3] :
                   profile = [f \in ProfileFields |->
                                 IF f \in S THEN Some(FieldValues(f)[choice[f]]) ELSE None]
       \/ \E raw \in RawCapabilities :
             profile = CommandProfile([name |-> "Echo", capabilities |-> Some(raw)])
    /\ event = None

BuildProfile ==
    /\ event = None
    /\ event' = Some(createProfileEvent(profile))
    /\ UNCHANGED profile


\* ------------------------------------------------------------------------
\* Directory API client: AgentdexClient

Methods == {"verify", "register", "registerStatus", "claim", "claimStatus", "search"}
HttpStatuses == {200, 402, 404, 500, 503}
ServerStatuses == {"paid", "completed", "pending", "expired", "awaiting_payment"}

\* the JSON bodies a response may carry; every field is optional
Bodies ==
    [error        : {None, Some("Name already taken")},
     status       : {None} \cup {Some(s) : s \in ServerStatuses},
     invoice      : {None, Some("lnbc1")},
     payment_hash : {None, Some("hash1")},
     claimed      : {None, Some(TRUE), Some(FALSE)},
     agent        : {None, Some([name |-> "Echo Prime"])},
     paid         : {None}]

EmptyBody == [error |-> None, status |-> None, invoice |-> None,
              payment_hash |-> None, claimed |-> None, agent |-> None, paid |-> None]

\* fetch() rejected: no response at all
NetworkError == [reached |-> FALSE, status |-> 0, json |-> FALSE, body |-> EmptyBody]

\* the responses of the server; json: the body parses as JSON
Responses ==
    {NetworkError} \cup
    [reached : {TRUE}, status : HttpStatuses, json : {TRUE}, body : Bodies] \cup
    [reached : {TRUE}, status : HttpStatuses, json : {FALSE}, body : {EmptyBody}]

Return(v) == [kind |-> "return", value |-> v, message |-> ""]
\* new Error(message): the error carries a message and no status property
Throw(m) == [kind |-> "throw", value |-> EmptyBody, message |-> m]

\* res.ok
ResOk(res) == res.status >= 200 /\ res.status <= 299

\* await res.json()
ResJson(res) == IF res.json THEN Return(res.body) ELSE Throw("Unexpected token in JSON")

\* err.error || fallback
ErrorMessage(body, fallback) == IF TruthyStr(body.error) THEN body.error[1] ELSE fallback

\* if (!res.ok && res.status !== 402) { throw new Error(err.error || fallback) }
\* return res.json()
CheckedCall(res, fallback) ==
    IF ~res.reached THEN Throw("fetch failed")
    ELSE IF ~ResOk(res) /\ res.status # 402
         THEN IF res.json THEN Throw(ErrorMessage(res.body, fallback)) ELSE ResJson(res)
         ELSE ResJson(res)

\* return res.json(), whatever the status
UncheckedCall(res) == IF ~res.reached THEN Throw("fetch failed") ELSE ResJson(res)

\* data.status === 'paid'
NormalizePaidOnly(body) == body.status = Some("paid")
\* data.status === 'paid' || data.status === 'completed'
NormalizePaid(body) == body.status = Some("paid") \/ body.status = Some("completed")

\* const data = await res.json(); data.paid = ...; return data
StatusCall(res) ==
    LET r == UncheckedCall(res)
    IN  IF r.kind = "return"
        THEN Return([r.value EXCEPT !.paid = Some(NormalizePaid(r.value))])
        ELSE r

verify(res) == UncheckedCall(res)
register(res) == CheckedCall(res, "Registration failed")
registerStatus(res) == StatusCall(res)
claim(res) == CheckedCall(res, "Claim failed")
claimStatus(res) == StatusCall(res)
search(res) == UncheckedCall(res)

ClientCall(method, res) ==
    CASE method = "verify" -> verify(res)
      [] method = "register" -> register(res)
      [] method = "registerStatus" -> registerStatus(res)
      [] method = "claim" -> claim(res)
      [] method = "claimStatus" -> claimStatus(res)
      [] method = "search" -> search(res)

\* ------------------------------------------------------------------------
\* Specification of the client

IdleApi == apiCall = [method |-> "verify", res |-> NetworkError] /\ apiOutcome = None

InitClient ==
    /\ apiCall \in [method : Methods, res : Responses]
    /\ apiOutcome = None

CallClient ==
    /\ apiOutcome = None
    /\ apiOutcome' = Some(ClientCall(apiCall.method, apiCall.res))
    /\ UNCHANGED apiCall

\* ------------------------------------------------------------------------
\* Relay publisher: publishToRelays

\* most endpoints of one publishToRelays call
MaxRelays == 3

DEFAULT_RELAYS == <<"wss://nos.lol", "wss://relay.damus.io">>
Endpoints == {"wss://nos.lol", "wss://relay.damus.io"}

\* timeoutMs = 10000, in seconds
timeoutSeconds == 10000 \div 1000

Indices(q) == 1..Len(q)

RECURSIVE CollectSettled(_, _)
\* every endpoint, whatever its result's status
CollectSettled(rs, att) ==
    IF rs = <<>> THEN <<>> ELSE <<Head(rs)>> \o CollectSettled(Tail(rs), Tail(att))

RECURSIVE CollectFulfilled(_, _)
\* for (const result of results) if (result.status === 'fulfilled') published.push(result.value)
CollectFulfilled(rs, att) ==
    IF rs = <<>> THEN <<>>
    ELSE (IF Head(att) = "fulfilled" THEN <<Head(rs)>> ELSE <<>>)
            \o CollectFulfilled(Tail(rs), Tail(att))

AllSettled(att) == \A i \in Indices(att) : att[i] # "pending"

\* Promise.all: rejects with the first rejection, resolves once every attempt is fulfilled
JoinAll(att) ==
    IF \E i \in Indices(att) : att[i] = "rejected" THEN "rejected"
    ELSE IF AllSettled(att) THEN "resolved" ELSE "waiting"
\* Promise.allSettled: resolves once every attempt has settled, and never rejects
Join(att) == IF AllSettled(att) THEN "resolved" ELSE "waiting"

IdlePub ==
    /\ relays = <<>>
    /\ pubState = <<>>
    /\ attempt = <<>>
    /\ clock = 0
    /\ pubStage = "idle"
    /\ published = <<>>
    /\ poolClosed = FALSE

\* const pool = new SimplePool(); const published = []; one attempt per relay is started
InitPublish ==
    /\ relays \in SeqsUpTo(Endpoints, MaxRelays)
    /\ pubState = [i \in Indices(relays) |-> "pending"]
    /\ attempt = [i \in Indices(relays) |-> "pending"]
    /\ clock = 0
    /\ pubStage = "running"
    /\ published = <<>>
    /\ poolClosed = FALSE

\* pool.publish([relay], event) resolves: the race is won if the attempt is still pending
RelayAccepts(i) ==
    /\ pubStage = "running"
    /\ pubState[i] = "pending"
    /\ pubState' = [pubState EXCEPT ![i] = "accepted"]
    /\ attempt' = [attempt EXCEPT ![i] = IF @ = "pending" THEN "fulfilled" ELSE @]
    /\ UNCHANGED <<relays, clock, pubStage, published, poolClosed>>

\* pool.publish([relay], event) rejects: the relay refused or the connection failed
RelayFails(i) ==
    /\ pubStage = "running"
    /\ pubState[i] = "pending"
    /\ pubState' = [pubState EXCEPT ![i] = "failed"]
    /\ attempt' = [attempt EXCEPT ![i] = IF @ = "pending" THEN "rejected" ELSE @]
    /\ UNCHANGED <<relays, clock, pubStage, published, poolClosed>>

\* an attempt without a timer: await pool.publish([relay], event) alone
TimerNever(c) == FALSE
\* setTimeout(..., timeoutMs): the timer is due timeoutMs after the call started
TimerDue(c) == c >= timeoutSeconds

\* setTimeout(() => reject(new Error('timeout')), timeoutMs) fires
TimerFires(i) ==
    /\ pubStage = "running"
    /\ TimerDue(clock)
    /\ attempt[i] = "pending"
    /\ attempt' = [attempt EXCEPT ![i] = "rejected"]
    /\ UNCHANGED <<relays, pubState, clock, pubStage, published, poolClosed>>

\* a second passes; the timers fire before the clock passes timeoutMs
Tick ==
    /\ pubStage = "running"
    /\ clock < timeoutSeconds
    /\ Join(attempt) = "waiting"
    /\ clock' = clock + 1
    /\ UNCHANGED <<relays, pubState, attempt, pubStage, published, poolClosed>>

\* the await of the join ends: resolved, the fulfilled results are collected and the
\* list is returned; rejected, the call throws; either way finally pool.close(relays)
PublishReturns ==
    /\ pubStage = "running"
    /\ Join(attempt) # "waiting"
    /\ IF Join(attempt) = "resolved"
       THEN published' = CollectFulfilled(relays, attempt) /\ pubStage' = "returned"
       ELSE published' = published /\ pubStage' = "threw"
    /\ poolClosed' = TRUE
    /\ UNCHANGED <<relays, pubState, attempt, clock>>

\* ------------------------------------------------------------------------
\* Event builder: createKind0Event

\* a member for every field that is not undefined, the empty string included
MemberIfDefined(p, f) == IF p[f] # <<>> THEN <<(<<f, p[f][1]>>)>> ELSE <<>>
\* ...(profile.f && { f: profile.f })
Member(p, f) == IF TruthyStr(p[f]) THEN <<(<<f, p[f][1]>>)>> ELSE <<>>

\* JSON.stringify of the object literal, listed as its members in order
Kind0Content(p) ==
    <<(<<"name", p.name>>)>>
        \o Member(p, "about") \o Member(p, "nip05") \o Member(p, "picture") \o Member(p, "lud16")

Kind0Tags(p) ==
    (IF TruthyBool(p.bot) THEN <<(<<"bot">>)>> ELSE <<>>)
        \o (IF TruthyStr(p.ownerPubkeyHex)
            THEN <<(<<"p", p.ownerPubkeyHex[1], "", "owner">>)>> ELSE <<>>)

createKind0Event(p) == [kind |-> 0, tags |-> Kind0Tags(p), content |-> Kind0Content(p)]

\* the profiles createKind0Event is tried on: each optional field undefined, empty or set
Kind0Profiles ==
    [name : {"Echo", ""},
     about : {None, Some(""), Some("a bot")},
     nip05 : {None, Some(""), Some("Echo@agentdex.id")},
     picture : {None, Some(""), Some("https://img.example/e.png")},
     lud16 : {None, Some(""), Some("new@ln.example")},
     ownerPubkeyHex : {None, Some(""), Some("ab12")},
     bot : {None, Some(FALSE), Some(TRUE)}]

InitKind0Profile == profile \in Kind0Profiles /\ event = None

BuildKind0 ==
    /\ event = None
    /\ event' = Some(createKind0Event(profile))
    /\ UNCHANGED profile

\* createKind0Event(sk, { name, nip05 })
Kind0Of(name, nip05) ==
    [name |-> name, about |-> None, nip05 |-> Some(nip05), picture |-> None,
     lud16 |-> None, ownerPubkeyHex |-> None, bot |-> None]

\* ------------------------------------------------------------------------
\* Metadata update: updateKind0
\*
\* A JSON object is the sequence of its members <<key, value>> in insertion order; a
\* JSON text is the sequence of the members it spells, or Malformed.

\* the most fields a stored record has
MaxStoredFields == 2
\* the most relays an updateKind0 call is given
MaxKind0Relays == 1

\* setTimeout(() => resolve([]), 5000)
raceSeconds == 5000 \div 1000

IdleMeta ==
    /\ stored = <<>>
    /\ updates = [lud16 |-> None]
    /\ query = "idle"
    /\ raceClock = 0
    /\ k0Stage = "idle"
    /\ existing = <<>>
    /\ republished = None
    /\ queryPoolClosed = FALSE

StoredKeys == {"name", "about", "lud16"}
StoredValue == [name |-> "Echo", about |-> "a bot", lud16 |-> "old@ln.example"]
\* a text that is not JSON
Malformed == << <<"not json">> >>
\* a text that spells the name member twice
DuplicateText == << <<"name", "Old">>, <<"name", "Echo">> >>

\* the texts of the objects with up to MaxStoredFields of the fields, in any order
StoredObjects ==
    { [i \in Indices(ks) |-> <<ks[i], StoredValue[ks[i]]>>] :
        ks \in { q \in SeqsUpTo(StoredKeys, MaxStoredFields) :
                    \A i, j \in Indices(q) : i # j => q[i] # q[j] } }
StoredContents == StoredObjects \cup {Malformed, DuplicateText}
\* what pool.querySync finds: no record of the author, or the author's kind 0 record
StoredEvents ==
    {<<>>} \cup { <<[kind |-> 0, tags |-> <<>>, content |-> c]>> : c \in StoredContents }

HasKey(obj, k) == \E i \in Indices(obj) : obj[i][1] = k
\* obj[k] of a key the object has
Get(obj, k) == obj[CHOOSE i \in Indices(obj) : obj[i][1] = k][2]
\* obj[k] = v: an own key keeps its place, a new key goes last
SetField(obj, k, v) ==
    IF HasKey(obj, k)
    THEN [i \in Indices(obj) |-> IF obj[i][1] = k THEN <<k, v>> ELSE obj[i]]
    ELSE Append(obj, <<k, v>>)

RECURSIVE ObjectOf(_)
\* the object a member list spells: a repeated key takes its last value
ObjectOf(members) ==
    IF members = <<>> THEN <<>>
    ELSE SetField(ObjectOf(SubSeq(members, 1, Len(members) - 1)),
                  members[Len(members)][1], members[Len(members)][2])
\* JSON.parse(text): throws on a text that is not JSON
JsonParse(text) ==
    IF text = Malformed THEN [threw |-> TRUE, value |-> <<>>]
    ELSE [threw |-> FALSE, value |-> ObjectOf(text)]
\* JSON.stringify(obj): the members in insertion order
JsonStringify(obj) == obj

\* let existing = {}; if (events.length > 0) existing = JSON.parse(events[0].content);
\* with catch {} around the race and the parse
ExistingOf(events, threw) ==
    IF threw \/ Len(events) = 0 \/ JsonParse(events[1].content).threw
    THEN <<>>
    ELSE JsonParse(events[1].content).value

\* if (updates.lud16) existing.lud16 = updates.lud16
Merge(obj, upd) ==
    IF TruthyStr(upd.lud16) THEN SetField(obj, "lud16", upd.lud16[1]) ELSE obj

\* const pool = new SimplePool(); the race of pool.querySync and its timer is awaited
InitUpdateKind0 ==
    /\ stored \in StoredEvents
    /\ updates \in [lud16 : {None, Some(""), Some("new@ln.example")}]
    /\ query = "pending"
    /\ raceClock = 0
    /\ k0Stage = "racing"
    /\ existing = <<>>
    /\ republished = None
    /\ queryPoolClosed = FALSE
    /\ relays \in SeqsUpTo(Endpoints, MaxKind0Relays)
    /\ pubState = <<>>
    /\ attempt = <<>>
    /\ clock = 0
    /\ pubStage = "idle"
    /\ published = <<>>
    /\ poolClosed = FALSE

\* the await of the race ends with events, or throws: existing is set and merged, the
\* record is built and publishToRelays(event, relays) is called, which starts one
\* attempt per relay
AfterRace(events, threw) ==
    /\ existing' = Merge(ExistingOf(events, threw), updates)
    /\ republished' = Some([kind |-> 0, tags |-> <<>>,
                            content |-> JsonStringify(existing')])
    /\ k0Stage' = "publishing"
    /\ pubState' = [i \in Indices(relays) |-> "pending"]
    /\ attempt' = [i \in Indices(relays) |-> "pending"]
    /\ clock' = 0
    /\ pubStage' = "running"
    /\ published' = <<>>
    /\ poolClosed' = FALSE
    /\ UNCHANGED <<relays, stored, updates, raceClock, queryPoolClosed>>

\* pool.querySync(relays, { kinds: [0], authors: [pubkey] }) resolves first
QueryResolves ==
    /\ k0Stage = "racing"
    /\ query = "pending"
    /\ query' = "resolved"
    /\ AfterRace(stored, FALSE)

\* pool.querySync rejects first
QueryRejects ==
    /\ k0Stage = "racing"
    /\ query = "pending"
    /\ query' = "rejected"
    /\ AfterRace(<<>>, TRUE)

\* a second passes with the query pending; the timer fires before the clock passes it
RaceTick ==
    /\ k0Stage = "racing"
    /\ raceClock < raceSeconds
    /\ raceClock' = raceClock + 1
    /\ UNCHANGED <<pubVars, stored, updates, query, k0Stage, existing, republished,
                   queryPoolClosed>>

\* setTimeout(() => resolve([]), 5000) fires first: the race resolves with []
RaceTimerFires ==
    /\ k0Stage = "racing"
    /\ raceClock >= raceSeconds
    /\ query' = query
    /\ AfterRace(<<>>, FALSE)

\* the await of publishToRelays ends: return published, or the throw goes on; either
\* way finally pool.close(relays)
UpdateKind0Returns ==
    /\ k0Stage = "publishing"
    /\ pubStage \in {"returned", "threw"}
    /\ k0Stage' = pubStage
    /\ queryPoolClosed' = TRUE
    /\ UNCHANGED <<pubVars, stored, updates, query, raceClock, existing, republished>>

\* ------------------------------------------------------------------------
\* Wallet-connect payment: payInvoice

IdlePay == payStage = "idle" /\ wallet = "none"

\* a call whose client.close() runs only after a successful payment
ClosesOnSuccess(ok) == ok
\* try { ... } finally { client.close() }: the client is closed however the try ends
ClosesWallet(ok) == TRUE

\* const client = new NWCClient(...); client.payInvoice({ invoice: bolt11 }) is awaited
PayInvoiceCalled ==
    /\ payStage = "idle"
    /\ payStage' = "paying"
    /\ wallet' = "open"

\* the await ends: the response is returned, or the rejection is thrown on
PayInvoiceSettled(ok) ==
    /\ payStage = "paying"
    /\ payStage' = IF ok THEN "returned" ELSE "threw"
    /\ wallet' = IF ClosesWallet(ok) THEN "closed" ELSE wallet

\* ------------------------------------------------------------------------
\* Key resolution: parseSecretKey and resolveKey

\* a key string is its sequence of characters
HexChars == {"0", "1", "2", "3", "4", "5", "6", "7", "8", "9",
             "a", "b", "c", "d", "e", "f", "A", "B", "C", "D", "E", "F"}
NsecPrefix == <<"n", "s", "e", "c">>

\* the key strings tried: empty, 64 hex digits in lower and in upper case, 63 hex digits,
\* a good nsec encoding, one whose decoding fails, one that decodes to another type
EmptyKey == <<>>
HexKey == [i \in 1..64 |-> "a"]
UpperHexKey == [i \in 1..64 |-> "A"]
ShortHexKey == [i \in 1..63 |-> "a"]
GoodNsec == <<"n", "s", "e", "c", "1", "q">>
BadNsec == <<"n", "s", "e", "c", "1", "x">>
OtherNsec == <<"n", "s", "e", "c", "r", "1", "q">>
KeyStrings == {EmptyKey, HexKey, UpperHexKey, ShortHexKey, GoodNsec, BadNsec, OtherNsec}

KeyOk(k) == [kind |-> "return", key |-> k, message |-> ""]
KeyErr(m) == [kind |-> "throw", key |-> "", message |-> m]

\* input.startsWith('nsec')
StartsWith(cs, prefix) == Len(cs) >= Len(prefix) /\ SubSeq(cs, 1, Len(prefix)) = prefix

\* /^[0-9a-f]+$/i.test(input): hex digits of any length
IsHexAnyLength(cs) == Len(cs) >= 1 /\ \A i \in 1..Len(cs) : cs[i] \in HexChars
\* /^[0-9a-f]{64}$/i.test(input)
IsHex64(cs) == Len(cs) = 64 /\ \A i \in 1..Len(cs) : cs[i] \in HexChars

\* a hex digit as Buffer.from(input, 'hex') reads it: the case does not matter
LowerHex(c) ==
    CASE c = "A" -> "a" [] c = "B" -> "b" [] c = "C" -> "c"
      [] c = "D" -> "d" [] c = "E" -> "e" [] c = "F" -> "f" [] OTHER -> c

\* Uint8Array.from(Buffer.from(input, 'hex')): the key bytes, written in lower-case hex
FromHex(cs) == Str([i \in 1..Len(cs) |-> LowerHex(cs[i])])

\* nip19.decode(input) of the library: the decoded type and data, or an exception
Nip19Decode(cs) ==
    IF cs = GoodNsec THEN [kind |-> "return", type |-> "nsec", data |-> "sk-of-nsec1q"]
    ELSE IF cs = OtherNsec THEN [kind |-> "return", type |-> "other", data |-> ""]
    ELSE [kind |-> "throw", type |-> "", data |-> ""]

parseSecretKey(input) ==
    IF StartsWith(input, NsecPrefix)
    THEN LET decoded == Nip19Decode(input)
         IN  IF decoded.kind = "throw" THEN KeyErr("nip19.decode failed")
             ELSE IF decoded.type # "nsec" THEN KeyErr("Invalid nsec")
             ELSE KeyOk(decoded.data)
    ELSE IF IsHex64(input) THEN KeyOk(FromHex(input))
    ELSE KeyErr("Invalid key format. Provide nsec or 64-char hex.")

\* if (x) for a string given as its characters
TruthyChars(o) == o # <<>> /\ o[1] # <<>>

\* the key files tried: one that cannot be read, one that is not JSON, and JSON objects
\* whose sk_hex and nsec members are absent or hold a key string
FileStrings == {EmptyKey, HexKey, ShortHexKey, GoodNsec}
KeyFiles ==
    [readable : {FALSE}, json : {FALSE}, sk_hex : {None}, nsec : {None}]
        \cup [readable : {TRUE}, json : {FALSE}, sk_hex : {None}, nsec : {None}]
        \cup [readable : {TRUE}, json : {TRUE},
              sk_hex : {None} \cup {Some(k) : k \in FileStrings},
              nsec : {None} \cup {Some(k) : k \in FileStrings}]

\* options.nsec, process.env.NOSTR_NSEC and the file options.keyFile names
KeySources ==
    [nsec : {None} \cup {Some(k) : k \in KeyStrings},
     env : {None} \cup {Some(k) : k \in KeyStrings},
     keyFile : {None} \cup {Some(f) : f \in KeyFiles}]

NoKeys == [nsec |-> None, env |-> None, keyFile |-> None]

\* process.env.NOSTR_NSEC || options.nsec
RawEnvFirst(ks) ==
    IF TruthyChars(ks.env) THEN ks.env ELSE ks.nsec
\* options.nsec || process.env.NOSTR_NSEC
Raw(ks) ==
    IF TruthyChars(ks.nsec) THEN ks.nsec ELSE ks.env

\* JSON.parse(readFileSync(options.keyFile, 'utf-8')) and the tests of data
FromKeyFile(file) ==
    IF ~file.readable THEN KeyErr("ENOENT: no such file or directory")
    ELSE IF ~file.json THEN KeyErr("Unexpected token in JSON")
    ELSE IF TruthyChars(file.sk_hex) THEN parseSecretKey(file.sk_hex[1])
    ELSE IF TruthyChars(file.nsec) THEN parseSecretKey(file.nsec[1])
    ELSE KeyErr("Key file must contain sk_hex or nsec")

resolveKey(ks) ==
    IF TruthyChars(Raw(ks)) THEN parseSecretKey(Raw(ks)[1])
    ELSE IF IsPresent(ks.keyFile) THEN FromKeyFile(ks.keyFile[1])
    ELSE KeyErr("No key provided. Use --nsec, --key-file, or set NOSTR_NSEC env var.")

\* ------------------------------------------------------------------------
\* Event builder: createNote

\* kind 1, tags [['t', 'agentdex']], the message as content
createNote(content) == [kind |-> 1, tags |-> <<(<<"t", "agentdex">>)>>, content |-> content]

\* ------------------------------------------------------------------------
\* Commands: register, claim and publish

\* await new Promise((r) => setTimeout(r, 3000)), in seconds
pollInterval == 3000 \div 1000
\* const timeout = 15 * 60 * 1000, in seconds
timeout == (15 * 60 * 1000) \div 1000

\* the --relay values tried, in the order given on the command line (the option's
\* accumulator (val, acc) => [...acc, val] appends); publish is tried with two
ExtraRelays == {"wss://relay.example"}
NoteRelays == {"wss://relay.example", "wss://relay.other"}
\* the --capabilities values register is run with: none, "a" and "a,"
CommandCapabilities == {None, Some(<<"a">>), Some(<<"a", ",">>)}

\* the responses client.register / client.claim are tried against
SubmitBodies ==
    {EmptyBody,
     [EmptyBody EXCEPT !.claimed = Some(TRUE)],
     [EmptyBody EXCEPT !.claimed = Some(TRUE), !.agent = Some([name |-> "Echo Prime"])],
     [EmptyBody EXCEPT !.claimed = Some(FALSE)]}
PendingBodies ==
    {[EmptyBody EXCEPT !.status = Some("awaiting_payment"), !.invoice = Some("lnbc1"),
                       !.payment_hash = Some("hash1")],
     [EmptyBody EXCEPT !.status = Some("awaiting_payment"), !.payment_hash = Some("hash1")]}
ErrorBodies == {EmptyBody, [EmptyBody EXCEPT !.error = Some("Name already taken")]}

SubmitResponses ==
    {NetworkError}
        \cup [reached : {TRUE}, status : {200}, json : {TRUE}, body : SubmitBodies]
        \cup [reached : {TRUE}, status : {402}, json : {TRUE}, body : PendingBodies]
        \cup [reached : {TRUE}, status : {500, 503}, json : {TRUE}, body : ErrorBodies]
        \cup [reached : {TRUE}, status : {500}, json : {FALSE}, body : {EmptyBody}]

\* the responses the status checks of the poll loop are tried against
StatusResponses ==
    {NetworkError}
        \cup [reached : {TRUE}, status : {200}, json : {TRUE},
              body : {[EmptyBody EXCEPT !.status = Some(s)] :
                         s \in {"paid", "completed", "pending", "expired"}}]
        \cup [reached : {TRUE}, status : {500}, json : {TRUE}, body : ErrorBodies]

\* a relay list in which --relay values replace the defaults
UserRelaysFirst(opts) ==
    IF opts.relay = <<>> THEN <<"wss://nos.lol", "wss://relay.damus.io">> ELSE opts.relay
\* ['wss://nos.lol', 'wss://relay.damus.io', ...options.relay]
CommandRelays(opts) == <<"wss://nos.lol", "wss://relay.damus.io">> \o opts.relay

\* `${name}@agentdex.id`
Nip05(name) == name \o "@agentdex.id"

\* claim.agent?.name || name
AgentName(body, name) ==
    IF body.agent # None /\ body.agent[1].name # "" THEN body.agent[1].name ELSE name

\* the <message> argument of publish
NoteMessage == "gm"

\* the record the command publishes at position `at`: register its profile record,
\* claim a kind 0 record (named after claim.agent on the free path), publish its note
CommandEvent(c, opts, body, at) ==
    IF c = "publish" THEN createNote(NoteMessage)
    ELSE IF c = "register" THEN createProfileEvent(CommandProfile(opts))
    ELSE IF at = "publish_free"
    THEN createKind0Event(Kind0Of(AgentName(body, opts.name), Nip05(opts.name)))
    ELSE createKind0Event(Kind0Of(opts.name, Nip05(opts.name)))

\* if (!options.skipKind0)
AlwaysKind0(c, opts) == TRUE
PublishesAfterSuccess(c, opts) == c = "register" \/ ~opts.skipKind0

\* while (Date.now() - startTime < timeout)
InWindowInclusive(t, start) == t - start <= timeout
InWindow(t, start) == t - start < timeout

\* the catch blocks: register's inner catch tests apiErr.status === 503, claim has one catch
Failure(c, err) ==
    [pc |-> "exited",
     say |-> IF c = "register"
             THEN IF err.status = Some(503)
                  THEN <<"Registration is currently disabled.">>
                  ELSE <<"Registration failed: " \o err.message>>
             ELSE <<"Error: " \o err.message>>,
     exit |-> Some(1)]

\* the error object of a thrown outcome: new Error(message) has no status property
ErrorOf(r) == [message |-> r.message, status |-> None]

\* qrcode.generate(invoice); console.log(`bolt11: ${invoice}`)
ShowInvoice(invoice) == <<"qr: " \o invoice, "bolt11: " \o invoice>>

\* a command that tries the wallet whether or not a wallet-connect URI is configured
AutoPaysAlways(opts) == TRUE
\* const nwcUri = options.nwc || process.env.NWC_URL; if (nwcUri)
AutoPays(opts) == opts.nwc

\* a claim that treats a body it does not recognise as an error
UnhandledFails(c) ==
    IF c = "register"
    THEN [pc |-> "publish_free", say |-> <<>>, exit |-> None]
    ELSE [pc |-> "exited", say |-> <<"Error: unexpected response">>, exit |-> Some(1)]
\* a body that is neither claimed nor awaiting payment with an invoice: register goes
\* on to the free registration, claim falls out of its try block and returns
Unhandled(c) ==
    IF c = "register"
    THEN [pc |-> "publish_free", say |-> <<>>, exit |-> None]
    ELSE [pc |-> "done", say |-> <<>>, exit |-> Some(0)]

\* what the command does with the body client.register / client.claim returned
OnSubmitted(c, opts, body) ==
    IF c = "claim" /\ TruthyBool(body.claimed)
    THEN IF PublishesAfterSuccess(c, opts)
         THEN [pc |-> "publish_free", say |-> <<Nip05(opts.name) \o " is now active!">>,
               exit |-> None]
         ELSE [pc |-> "done",
               say |-> <<Nip05(opts.name) \o " is now active!", "Skipped kind 0 publish.">>,
               exit |-> Some(0)]
    ELSE IF body.status = Some("awaiting_payment") /\ TruthyStr(body.invoice)
    THEN IF AutoPays(opts)
         THEN [pc |-> "pay", say |-> <<"fee">>, exit |-> None]
         ELSE [pc |-> "poll_head", say |-> <<"fee">> \o ShowInvoice(body.invoice[1]),
               exit |-> None]
    ELSE Unhandled(c)

\* a catch (payErr) that gives up: the failure is printed and the process exits
OnPayFailedFatal(invoice) ==
    [pc |-> "exited", say |-> <<"NWC payment failed">>, exit |-> Some(1)]
\* catch (payErr) { paySpinner.fail(...); 'Pay manually:'; qr; bolt11 }
OnPayFailed(invoice) ==
    [pc |-> "poll_head",
     say |-> <<"NWC payment failed", "Pay manually:">> \o ShowInvoice(invoice),
     exit |-> None]

\* a command that takes the wallet's answer for the backend's: it goes on to publish
OnPaidCompletes(invoice) == [pc |-> "publish_paid", say |-> <<"Invoice paid!">>, exit |-> None]
\* paySpinner.succeed('Invoice paid!')
OnPaid(invoice) == [pc |-> "poll_head", say |-> <<"Invoice paid!">>, exit |-> None]

\* a loop that goes on polling whatever the status check reports
OnStatusIgnored(c, opts, paid) == [pc |-> "poll_head", say |-> <<>>, exit |-> None]
\* a loop that takes a paid answer only while the deadline has not passed, and
\* reports the timeout otherwise
OnStatusLateRejected(c, opts, paid) ==
    IF ~paid THEN [pc |-> "poll_head", say |-> <<>>, exit |-> None]
    ELSE IF ~InWindow(now, startTime)
    THEN [pc |-> "exited", say |-> <<"Payment timeout (15 min). Invoice expired.">>,
          exit |-> Some(1)]
    ELSE IF c = "register"
    THEN [pc |-> "publish_paid", say |-> <<"Registered!">>, exit |-> None]
    ELSE IF PublishesAfterSuccess(c, opts)
    THEN [pc |-> "publish_paid", say |-> <<Nip05(opts.name) \o " is now active!">>,
          exit |-> None]
    ELSE [pc |-> "done", say |-> <<Nip05(opts.name) \o " is now active!">>,
          exit |-> Some(0)]
\* if (status.paid) { ...; return } in the poll loop
OnStatus(c, opts, paid) ==
    IF ~paid THEN [pc |-> "poll_head", say |-> <<>>, exit |-> None]
    ELSE IF c = "register"
    THEN [pc |-> "publish_paid", say |-> <<"Registered!">>, exit |-> None]
    ELSE IF PublishesAfterSuccess(c, opts)
    THEN [pc |-> "publish_paid", say |-> <<Nip05(opts.name) \o " is now active!">>,
          exit |-> None]
    ELSE [pc |-> "done", say |-> <<Nip05(opts.name) \o " is now active!">>,
          exit |-> Some(0)]

RECURSIVE JoinList(_)
\* published.join(', ')
JoinList(list) ==
    IF list = <<>> THEN ""
    ELSE IF Len(list) = 1 THEN list[1]
    ELSE list[1] \o ", " \o JoinList(Tail(list))

\* what is printed once publishToRelays has returned `list`; claim's paid path drops
\* the returned list
AfterPublish(c, at, list) ==
    IF c = "register"
    THEN IF at = "publish_free"
         THEN <<"Registered!", "Registered on agentdex (free tier)",
                "Published to: " \o JoinList(list)>>
         ELSE <<"Registered on agentdex", "Published to: " \o JoinList(list)>>
    ELSE IF c = "claim"
    THEN IF at = "publish_free"
         THEN <<"Kind 0 published to " \o JoinList(list)>>
         ELSE <<"Kind 0 published - NIP-05 active on all Nostr clients">>
    ELSE <<"Published!", "Published to: " \o JoinList(list)>>

IdleCmd ==
    /\ cmd = "register"
    /\ options = [name |-> "Echo", capabilities |-> None, nwc |-> FALSE,
                  skipKind0 |-> FALSE, relay |-> <<>>]
    /\ keys = NoKeys
    /\ sk = None
    /\ pc = "idle"
    /\ httpStatus = 0
    /\ result = None
    /\ now = 0
    /\ startTime = 0
    /\ delayed = 0
    /\ nSleeps = 0
    /\ nChecks = 0
    /\ nPaid = 0
    /\ nPayCalls = 0
    /\ out = <<>>
    /\ publishes = <<>>
    /\ exitCode = None

\* key strings that are no key, and key files that hold none
BadKeyStrings == {ShortHexKey, BadNsec, OtherNsec}
NoKeyString == {None, Some(EmptyKey)}
BadKeyFiles ==
    {f \in KeyFiles :
        \/ ~f.readable \/ ~f.json
        \/ f.sk_hex = Some(ShortHexKey)
        \/ f.sk_hex \in NoKeyString /\ f.nsec \in NoKeyString \cup {Some(ShortHexKey)}}

\* the key sources a whole command is run with: those whose first non-empty value is
\* no key or whose key file holds none, a good --nsec alone, and a key file with a good
\* sk_hex alone
CommandKeySources ==
    {ks \in KeySources :
        \/ ks.nsec \in {Some(k) : k \in BadKeyStrings}
        \/ ks.nsec \in NoKeyString /\ ks.env \in {Some(k) : k \in BadKeyStrings}
        \/ /\ ks.nsec \in NoKeyString /\ ks.env \in NoKeyString
           /\ ks.keyFile = None \/ ks.keyFile \in {Some(f) : f \in BadKeyFiles}}
        \cup {[NoKeys EXCEPT !.nsec = Some(GoodNsec)],
              [NoKeys EXCEPT !.keyFile = Some([readable |-> TRUE, json |-> TRUE,
                                               sk_hex |-> Some(HexKey), nsec |-> None])]}

\* the command line is parsed and the action starts
InitCommand ==
    /\ cmd \in {"register", "claim", "publish"}
    /\ keys \in CommandKeySources
    /\ sk = None
    /\ options \in [name : {"Echo"}, capabilities : CommandCapabilities, nwc : BOOLEAN,
                    skipKind0 : BOOLEAN,
                    relay : SeqsUpTo(ExtraRelays, MaxExtraRelays)
                               \cup SeqsUpTo(NoteRelays, MaxNoteRelays)]
    /\ cmd \in {"register", "claim"} => options.relay \in SeqsUpTo(ExtraRelays, MaxExtraRelays)
    /\ cmd = "publish" => options.relay \in SeqsUpTo(NoteRelays, MaxNoteRelays)
    \* --skip-kind0 is an option of claim, --capabilities one of register, and publish
    \* has neither, nor --nwc
    /\ cmd = "register" => ~options.skipKind0
    /\ cmd = "claim" => options.capabilities = None
    /\ cmd = "publish" => ~options.skipKind0 /\ options.capabilities = None /\ ~options.nwc
    /\ pc = "start"
    /\ httpStatus = 0
    /\ result = None
    /\ now = 0
    /\ startTime = 0
    /\ delayed = 0
    /\ nSleeps = 0
    /\ nChecks = 0
    /\ nPaid = 0
    /\ nPayCalls = 0
    /\ out = <<>>
    /\ publishes = <<>>
    /\ exitCode = None

\* one step of the command: position, printed lines and exit code
Goto(step) ==
    /\ pc' = step.pc
    /\ out' = out \o step.say
    /\ exitCode' = step.exit

\* the outer catch of a command: console.error(`Error: ${message}`); process.exit(1)
Abort(err) == [pc |-> "exited", say |-> <<"Error: " \o err.message>>, exit |-> Some(1)]

\* const sk = resolveKey(options), the first statement of the action; the record is
\* then signed and, in register and claim, the client is called
ResolveKey ==
    /\ pc = "start"
    /\ sk' = Some(resolveKey(keys))
    /\ IF resolveKey(keys).kind = "throw"
       THEN Goto(Abort(resolveKey(keys)))
       ELSE Goto([pc |-> IF cmd = "publish" THEN "publish_note" ELSE "submit",
                  say |-> <<>>, exit |-> None])
    /\ UNCHANGED <<cmd, options, keys, httpStatus, result, now, startTime, delayed,
                   nSleeps, nChecks, nPaid, nPayCalls, publishes>>

\* const result = await client.register(event) / const claim = await client.claim(name, event)
Submit ==
    /\ pc = "submit"
    /\ \E res \in SubmitResponses :
          LET r == IF cmd = "register" THEN register(res) ELSE claim(res)
          IN  /\ httpStatus' = res.status
              /\ IF r.kind = "throw"
                 THEN Goto(Failure(cmd, ErrorOf(r))) /\ UNCHANGED <<result, startTime>>
                 ELSE /\ result' = Some(r.value)
                      /\ Goto(OnSubmitted(cmd, options, r.value))
                      \* const startTime = Date.now(), when the poll loop is entered
                      /\ startTime' = IF OnSubmitted(cmd, options, r.value).pc = "poll_head"
                                      THEN now ELSE startTime
    /\ UNCHANGED <<cmd, options, keys, sk, now, delayed, nSleeps, nChecks, nPaid, nPayCalls,
                   publishes>>

\* payInvoice(nwcUri, invoice) is called
Pay ==
    /\ pc = "pay"
    /\ PayInvoiceCalled
    /\ nPayCalls' = nPayCalls + 1
    /\ pc' = "paying"
    /\ UNCHANGED <<cmd, options, keys, sk, httpStatus, result, now, startTime, delayed,
                   nSleeps, nChecks, nPaid, out, publishes, exitCode>>

\* await payInvoice(nwcUri, invoice) returns or throws
PaySettled ==
    /\ pc = "paying"
    /\ \E paid \in BOOLEAN :
          /\ PayInvoiceSettled(paid)
          /\ Goto(IF paid THEN OnPaid(result[1].invoice[1])
                  ELSE OnPayFailed(result[1].invoice[1]))
    /\ startTime' = now
    /\ UNCHANGED <<cmd, options, keys, sk, httpStatus, result, now, delayed, nSleeps,
                   nChecks, nPaid, nPayCalls, publishes>>

\* the loop condition holds: await new Promise((r) => setTimeout(r, 3000))
PollSleep ==
    /\ pc = "poll_head"
    /\ InWindow(now, startTime)
    /\ now' = now + pollInterval
    /\ nSleeps' = nSleeps + 1
    /\ pc' = "poll_check"
    /\ UNCHANGED <<cmd, options, keys, sk, httpStatus, result, startTime, delayed, nChecks, nPaid, nPayCalls,
                   out, publishes, exitCode>>

\* the loop condition fails: pollSpinner.fail('Payment timeout ...'); process.exit(1)
PollTimeout ==
    /\ pc = "poll_head"
    /\ ~InWindow(now, startTime)
    /\ Goto([pc |-> "exited", say |-> <<"Payment timeout (15 min). Invoice expired.">>,
             exit |-> Some(1)])
    /\ UNCHANGED <<cmd, options, keys, sk, httpStatus, result, now, startTime, delayed, nSleeps, nChecks, nPaid,
                   nPayCalls, publishes>>

\* const status = await client.registerStatus(hash) / client.claimStatus(hash)
PollCheck ==
    /\ pc = "poll_check"
    /\ nChecks' = nChecks + 1
    /\ \E d \in 0..(MaxDelay - delayed) :
          /\ now' = now + d
          /\ delayed' = delayed + d
    /\ \E res \in StatusResponses :
          LET r == IF cmd = "register" THEN registerStatus(res) ELSE claimStatus(res)
          IN  IF r.kind = "throw"
              THEN Goto(Failure(cmd, ErrorOf(r))) /\ UNCHANGED nPaid
              ELSE /\ Goto(OnStatus(cmd, options, TruthyBool(r.value.paid)))
                   /\ nPaid' = IF TruthyBool(r.value.paid) THEN nPaid + 1 ELSE nPaid
    /\ UNCHANGED <<cmd, options, keys, sk, httpStatus, result, startTime, nSleeps, nPayCalls, publishes>>

\* const published = await publishToRelays(event, relays), then the report and return
Publish ==
    /\ pc \in {"publish_free", "publish_paid", "publish_note"}
    /\ LET rl == CommandRelays(options)
           body == IF result = None THEN EmptyBody ELSE result[1]
       IN  \E att \in [Indices(rl) -> {"fulfilled", "rejected"}] :
              /\ publishes' = Append(publishes,
                                     [event |-> CommandEvent(cmd, options, body, pc),
                                      relays |-> rl,
                                      published |-> CollectFulfilled(rl, att)])
              /\ Goto([pc |-> "done",
                       say |-> AfterPublish(cmd, pc, CollectFulfilled(rl, att)),
                       exit |-> Some(0)])
    /\ UNCHANGED <<cmd, options, keys, sk, httpStatus, result, now, startTime, delayed,
                   nSleeps, nChecks, nPaid, nPayCalls>>

\* ------------------------------------------------------------------------
\* The specifications

Init == IdleEv /\ IdleApi /\ IdlePub /\ IdlePay /\ IdleMeta /\ InitCommand
Next ==
    \/ ResolveKey /\ UNCHANGED <<evVars, metaVars, apiVars, pubVars, payVars>>
    \/ Submit /\ UNCHANGED <<evVars, metaVars, apiVars, pubVars, payVars>>
    \/ Pay /\ UNCHANGED <<evVars, metaVars, apiVars, pubVars>>
    \/ PaySettled /\ UNCHANGED <<evVars, metaVars, apiVars, pubVars>>
    \/ PollSleep /\ UNCHANGED <<evVars, metaVars, apiVars, pubVars, payVars>>
    \/ PollTimeout /\ UNCHANGED <<evVars, metaVars, apiVars, pubVars, payVars>>
    \/ PollCheck /\ UNCHANGED <<evVars, metaVars, apiVars, pubVars, payVars>>
    \/ Publish /\ UNCHANGED <<evVars, metaVars, apiVars, pubVars, payVars>>
Spec == Init /\ [][Next]_vars

InitProfileSpec == InitProfile /\ IdleApi /\ IdlePub /\ IdlePay /\ IdleMeta /\ IdleCmd
NextProfile == BuildProfile /\ UNCHANGED <<metaVars, apiVars, pubVars, payVars, cmdVars>>
SpecProfile == InitProfileSpec /\ [][NextProfile]_vars

InitClientSpec == IdleEv /\ InitClient /\ IdlePub /\ IdlePay /\ IdleMeta /\ IdleCmd
NextClient == CallClient /\ UNCHANGED <<evVars, metaVars, pubVars, payVars, cmdVars>>
SpecClient == InitClientSpec /\ [][NextClient]_vars

\* resolveKey alone, as the first step of a command, over every key source
InitKeySpec ==
    /\ IdleEv /\ IdleApi /\ IdlePub /\ IdlePay /\ IdleMeta
    /\ cmd \in {"register", "claim", "publish"}
    /\ options = [name |-> "Echo", capabilities |-> None, nwc |-> FALSE,
                  skipKind0 |-> FALSE, relay |-> <<>>]
    /\ keys \in KeySources
    /\ sk = None
    /\ pc = "start"
    /\ httpStatus = 0
    /\ result = None
    /\ now = 0
    /\ startTime = 0
    /\ delayed = 0
    /\ nSleeps = 0
    /\ nChecks = 0
    /\ nPaid = 0
    /\ nPayCalls = 0
    /\ out = <<>>
    /\ publishes = <<>>
    /\ exitCode = None
NextKey == ResolveKey /\ UNCHANGED <<evVars, metaVars, apiVars, pubVars, payVars>>
SpecKey == InitKeySpec /\ [][NextKey]_vars

InitPublishSpec == IdleEv /\ IdleApi /\ InitPublish /\ IdlePay /\ IdleMeta /\ IdleCmd
NextPublish ==
    \/ (\E i \in Indices(relays) : RelayAccepts(i)) /\ UNCHANGED <<evVars, metaVars, apiVars, payVars, cmdVars>>
    \/ (\E i \in Indices(relays) : RelayFails(i)) /\ UNCHANGED <<evVars, metaVars, apiVars, payVars, cmdVars>>
    \/ (\E i \in Indices(relays) : TimerFires(i)) /\ UNCHANGED <<evVars, metaVars, apiVars, payVars, cmdVars>>
    \/ Tick /\ UNCHANGED <<evVars, metaVars, apiVars, payVars, cmdVars>>
    \/ PublishReturns /\ UNCHANGED <<evVars, metaVars, apiVars, payVars, cmdVars>>
SpecPublish == InitPublishSpec /\ [][NextPublish]_vars

\* one createKind0Event call on a bounded profile
InitKind0EventSpec == InitKind0Profile /\ IdleApi /\ IdlePub /\ IdlePay /\ IdleMeta /\ IdleCmd
NextKind0Event == BuildKind0 /\ UNCHANGED <<metaVars, apiVars, pubVars, payVars, cmdVars>>
SpecKind0Event == InitKind0EventSpec /\ [][NextKind0Event]_vars

\* one updateKind0 call, with the publishToRelays call it makes
InitKind0Spec == IdleEv /\ IdleApi /\ InitUpdateKind0 /\ IdlePay /\ IdleCmd
NextKind0 ==
    \/ QueryResolves /\ UNCHANGED <<evVars, apiVars, payVars, cmdVars>>
    \/ QueryRejects /\ UNCHANGED <<evVars, apiVars, payVars, cmdVars>>
    \/ RaceTick /\ UNCHANGED <<evVars, apiVars, payVars, cmdVars>>
    \/ RaceTimerFires /\ UNCHANGED <<evVars, apiVars, payVars, cmdVars>>
    \/ NextPublish
    \/ UpdateKind0Returns /\ UNCHANGED <<evVars, apiVars, payVars, cmdVars>>
SpecKind0 == InitKind0Spec /\ [][NextKind0]_vars

\* the two calls that own a transport handle, each run once: publishToRelays with its
\* relay pool and payInvoice with its wallet-connect client
InitTransportSpec == IdleEv /\ IdleApi /\ InitPublish /\ IdlePay /\ IdleMeta /\ IdleCmd
NextTransport ==
    \/ NextPublish /\ UNCHANGED payVars
    \/ PayInvoiceCalled /\ UNCHANGED <<evVars, metaVars, apiVars, pubVars, cmdVars>>
    \/ (\E ok \in BOOLEAN : PayInvoiceSettled(ok)) /\ UNCHANGED <<evVars, metaVars, apiVars, pubVars, cmdVars>>
SpecTransport == InitTransportSpec /\ [][NextTransport]_vars

\* ------------------------------------------------------------------------
\* Properties of the relay publisher

Range(q) == {q[i] : i \in Indices(q)}
Count(q, e) == Cardinality({i \in Indices(q) : q[i] = e})
Failed == {i \in Indices(relays) : attempt[i] = "rejected"}
Succeeded == {i \in Indices(relays) : attempt[i] = "fulfilled"}

\* C1: publishToRelays over N endpoints of which M fail (rejection, connection error
\* or timeout) never throws and returns N - M endpoints: each endpoint as many times
\* as it has successful attempts, whatever the order in which the attempts completed.
C1_PublishReturnsSucceeded ==
    /\ pubStage # "threw"
    /\ pubStage = "returned" =>
          /\ Len(published) = Len(relays) - Cardinality(Failed)
          /\ \A e \in Endpoints :
                Count(published, e) = Cardinality({i \in Succeeded : relays[i] = e})
          /\ \A i \in Succeeded : pubState[i] = "accepted"

\* a call over three endpoints returned one of them: two attempts failed, one of
\* them by its timer although the relay accepted later
C1_Witness ==
    /\ pubStage = "returned"
    /\ Len(relays) = 3
    /\ Len(published) = 1
    /\ \E i \in Failed : pubState[i] = "accepted"
    /\ \E i \in Failed : pubState[i] = "failed"

NeverAnswered == {i \in Indices(relays) : pubState[i] = "pending"}

C17_HandlesClosedOnEveryExit ==
    /\ pubStage \in {"returned", "threw"} => poolClosed
    /\ pubStage = "running" => ~poolClosed
    /\ payStage \in {"returned", "threw"} => wallet = "closed"
    /\ payStage = "paying" => wallet = "open"

\* the payment threw and the publish returned with every attempt failed, and both
\* handles are closed
C17_Witness ==
    /\ payStage = "threw"
    /\ wallet = "closed"
    /\ pubStage = "returned"
    /\ relays # <<>>
    /\ Succeeded = {}
    /\ poolClosed

\* ------------------------------------------------------------------------
\* Properties of the directory API client

Called == apiOutcome # None
PendingPayload(body) == <<body.status, body.invoice, body.payment_hash>>

\* C7: for every client call, a non-success HTTP status other than 402 raises an
\* error that carries the server's message when there is one, and a 402 is returned
\* as a normal result carrying the pending-payment payload.
C7_ErrorsRaisedPaymentReturned ==
    Called /\ apiCall.res.reached /\ apiCall.res.json =>
        LET res == apiCall.res
            o == apiOutcome[1]
        IN  /\ (~ResOk(res) /\ res.status # 402) =>
                  /\ o.kind = "throw"
                  /\ TruthyStr(res.body.error) => o.message = res.body.error[1]
            /\ res.status = 402 =>
                  /\ o.kind = "return"
                  /\ PendingPayload(o.value) = PendingPayload(res.body)

\* the paid flag the documented table gives each server status
PaidByTable(status) ==
    CASE status = Some("paid") -> TRUE
      [] status = Some("completed") -> TRUE
      [] status = Some("pending") -> FALSE
      [] status = Some("expired") -> FALSE
      [] OTHER -> FALSE

\* C8: registerStatus and claimStatus return paid = true exactly when the server
\* status is "paid" or "completed", and paid = false for "pending" and "expired";
\* a readable status response is always returned, with the same flag from both.
C8_StatusNormalised ==
    Called /\ apiCall.method \in {"registerStatus", "claimStatus"}
           /\ apiCall.res.reached /\ apiCall.res.json =>
        /\ apiOutcome[1].kind = "return"
        /\ apiOutcome[1].value.paid = Some(PaidByTable(apiCall.res.body.status))

\* claimStatus answered "completed" and the result says paid
C8_Witness ==
    /\ Called
    /\ apiCall.method = "claimStatus"
    /\ apiCall.res.json
    /\ apiCall.res.body.status = Some("completed")
    /\ apiOutcome[1].kind = "return"
    /\ apiOutcome[1].value.paid = Some(TRUE)

\* ------------------------------------------------------------------------
\* Properties of the event builder

Built == event # None

\* the documented order of the fields and the tag key of each
FieldOrder ==
    <<"name", "description", "capabilities", "framework", "model", "website", "avatar",
      "human", "ownerX", "status", "messagingPolicy", "messagingMinTrust", "messagingFee",
      "portfolio", "skills", "experience">>
TagKey ==
    [name |-> "name", description |-> "description", capabilities |-> "capability",
     framework |-> "framework", model |-> "model", website |-> "website",
     avatar |-> "avatar", human |-> "human", ownerX |-> "owner_x", status |-> "status",
     messagingPolicy |-> "messaging_policy", messagingMinTrust |-> "messaging_min_trust",
     messagingFee |-> "messaging_fee", portfolio |-> "portfolio", skills |-> "skill",
     experience |-> "experience"]

\* one key per populated field, one per entry for a list field
KeysOfField(p, f) ==
    IF ~IsPresent(p[f]) THEN <<>>
    ELSE IF f \in ListFields \cup {"portfolio"}
    THEN [i \in Indices(p[f][1]) |-> TagKey[f]]
    ELSE <<TagKey[f]>>

ExpectedKeys(p) == <<"d">> \o Flatten([i \in Indices(FieldOrder) |-> KeysOfField(p, FieldOrder[i])])
TagKeys(tags) == [i \in Indices(tags) |-> tags[i][1]]

\* C9: the record built for a profile carries the discriminator tag and then exactly
\* one tag per populated field (one per entry for a list field), none for an absent
\* field, in the documented order.
C9_OneTagPerPopulatedField ==
    Built => /\ event[1].tags[1] = <<"d", "agentdex-profile">>
             /\ TagKeys(event[1].tags) = ExpectedKeys(profile)

\* C10: a status that is present but falsy (the empty string) is emitted as the
\* status tag with the value "active".
C10_FalsyStatusDefaultsToActive ==
    Built /\ IsPresent(profile["status"]) /\ ~TruthyStr(profile["status"]) =>
        <<"status", "active">> \in Range(event[1].tags)

\* the position of a tag key in the documented order, the discriminator first
KeyRank(k) ==
    IF k = "d" THEN 0
    ELSE CHOOSE i \in Indices(FieldOrder) : TagKey[FieldOrder[i]] = k

\* the values of the tags of one key, in the order of the tags
ValuesOf(tags, key) ==
    LET sel == SelectSeq(tags, LAMBDA t : t[1] = key)
    IN  [i \in Indices(sel) |-> sel[i][2]]

\* C11: in every record createProfileEvent builds, the first tag is the discriminator,
\* the tags follow in insertion order (the documented order of the fields, a list's
\* entries in the order of the list), and no tag is a placeholder: every tag has a
\* value, no value of a tag is the empty string, capability, skill and experience
\* entries included, and a messaging value of 0 has no tag.
C11_TagsOrderedNoPlaceholder ==
    Built =>
        LET tags == event[1].tags
        IN  /\ tags[1] = <<"d", "agentdex-profile">>
            /\ \A i, j \in Indices(tags) :
                  i < j => KeyRank(tags[i][1]) <= KeyRank(tags[j][1])
            /\ \A f \in ListFields :
                  IsPresent(profile[f]) =>
                      ValuesOf(tags, TagKey[f]) = SelectSeq(profile[f][1], LAMBDA v : v # "")
            /\ \A f \in NumFields :
                  profile[f] = Some(0) => ValuesOf(tags, TagKey[f]) = <<>>
            /\ \A i \in Indices(tags) :
                  /\ Len(tags[i]) >= 2
                  /\ \A k \in 2..Len(tags[i]) : tags[i][k] # ""

\* ------------------------------------------------------------------------
\* Properties of the key resolution

Resolved == sk # None
MissingKeyMessage == "No key provided. Use --nsec, --key-file, or set NOSTR_NSEC env var."
MalformedKeyFileMessage == "Key file must contain sk_hex or nsec"
InvalidFormatMessage == "Invalid key format. Provide nsec or 64-char hex."
\* the errors that say the key's format is invalid: neither nsec nor hex, an nsec string
\* that decodes to something else, an nsec string the decoder rejects
InvalidKeyMessages == {InvalidFormatMessage, "Invalid nsec", "nip19.decode failed"}

\* the key the file holds, or the error reading it
KeyOfFile(file) ==
    IF ~file.readable \/ ~file.json THEN FromKeyFile(file)
    ELSE IF TruthyChars(file.sk_hex) THEN parseSecretKey(file.sk_hex[1])
    ELSE IF TruthyChars(file.nsec) THEN parseSecretKey(file.nsec[1])
    ELSE KeyErr(MalformedKeyFileMessage)

\* the outcome when the first source that `Given` holds of is the one used
ByPrecedence(Given(_)) ==
    IF Given(keys.nsec) THEN parseSecretKey(keys.nsec[1])
    ELSE IF Given(keys.env) THEN parseSecretKey(keys.env[1])
    ELSE IF IsPresent(keys.keyFile) THEN KeyOfFile(keys.keyFile[1])
    ELSE KeyErr(MissingKeyMessage)

\* C12 as stated: the key comes from --nsec when the flag is given, otherwise from
\* NOSTR_NSEC when the variable is set, otherwise from the key file; a source given
\* with an empty value counts as given.
C12_FlagThenEnvThenFile ==
    Resolved => sk[1] = ByPrecedence(IsPresent)

\* C12 amended: the key comes from --nsec when the flag is given with a non-empty
\* value, otherwise from NOSTR_NSEC when the variable is set to a non-empty value,
\* otherwise from the key file; a lower source is never used, not even after the
\* higher one failed to parse, when a higher one has a non-empty value.
C12_NonEmptyFlagThenEnvThenFile ==
    Resolved => sk[1] = ByPrecedence(TruthyChars)

\* all three sources hold a different good key and the flag's key was taken
C12_Witness ==
    /\ Resolved
    /\ keys.nsec = Some(GoodNsec)
    /\ keys.env = Some(HexKey)
    /\ keys.keyFile # None /\ keys.keyFile[1].sk_hex = Some(ShortHexKey)
    /\ sk[1] = KeyOk("sk-of-nsec1q")

\* an nsec encoding, as the decoder accepts it, or 64 hex digits
SixtyFourHex(cs) == Len(cs) = 64 /\ \A i \in 1..64 : cs[i] \in HexChars
ValidKeyString(cs) == cs = GoodNsec \/ SixtyFourHex(cs)

\* the value resolveKey hands to parseSecretKey, if it gets that far
Chosen ==
    IF TruthyChars(keys.nsec) THEN keys.nsec
    ELSE IF TruthyChars(keys.env) THEN keys.env
    ELSE IF keys.keyFile = None \/ ~keys.keyFile[1].readable \/ ~keys.keyFile[1].json THEN None
    ELSE IF TruthyChars(keys.keyFile[1].sk_hex) THEN keys.keyFile[1].sk_hex
    ELSE IF TruthyChars(keys.keyFile[1].nsec) THEN keys.keyFile[1].nsec
    ELSE None

NothingSupplied ==
    ~TruthyChars(keys.nsec) /\ ~TruthyChars(keys.env) /\ keys.keyFile = None

KeyFileLacksBoth ==
    /\ ~TruthyChars(keys.nsec) /\ ~TruthyChars(keys.env)
    /\ keys.keyFile # None
    /\ keys.keyFile[1].readable /\ keys.keyFile[1].json
    /\ ~TruthyChars(keys.keyFile[1].sk_hex) /\ ~TruthyChars(keys.keyFile[1].nsec)

\* C13: resolveKey fails with the missing-key error when no flag, variable or key file
\* is supplied, with an invalid-format error when the chosen value is neither an nsec
\* encoding nor 64 hex digits, and with the malformed-key-file error when the file
\* parses and has neither sk_hex nor nsec; whenever resolveKey fails the command has
\* printed the error and exited with code 1, without a backend call, a payment or a
\* relay publish, and accepts only a valid key otherwise.
C13_KeyErrorsExitBeforeAnyCall ==
    Resolved =>
        /\ NothingSupplied => sk[1] = KeyErr(MissingKeyMessage)
        /\ (Chosen # None /\ ~ValidKeyString(Chosen[1])) =>
              sk[1].kind = "throw" /\ sk[1].message \in InvalidKeyMessages
        /\ KeyFileLacksBoth => sk[1] = KeyErr(MalformedKeyFileMessage)
        /\ sk[1].kind = "return" => Chosen # None /\ ValidKeyString(Chosen[1])
        /\ sk[1].kind = "throw" =>
              /\ pc = "exited"
              /\ exitCode = Some(1)
              /\ out = <<"Error: " \o sk[1].message>>
              /\ result = None
              /\ nChecks = 0 /\ nPayCalls = 0
              /\ publishes = <<>>

\* register was given 63 hex digits as --nsec and a good NOSTR_NSEC, and has exited
\* with the invalid-format error
C13_Witness ==
    /\ Resolved
    /\ cmd = "register"
    /\ keys.nsec = Some(ShortHexKey)
    /\ keys.env = Some(GoodNsec)
    /\ sk[1] = KeyErr(InvalidFormatMessage)
    /\ exitCode = Some(1)

\* ------------------------------------------------------------------------
\* Properties of the register and claim commands

Polling == pc \in {"poll_head", "poll_check"}
Elapsed == now - startTime
Printed(line) == line \in Range(out)
PaidLine == IF cmd = "register" THEN "Registered!" ELSE Nip05(options.name) \o " is now active!"
TimeoutLine == "Payment timeout (15 min). Invoice expired."
PaymentRequired == result # None /\ result[1].status = Some("awaiting_payment")
Publishing == pc \in {"publish_free", "publish_paid"}

\* C2: every status check of the poll loop follows exactly one poll-interval sleep, and
\* when the checks report unpaid k times and then paid, the loop ends with the paid
\* outcome after those k + 1 checks: the loop is left for good, so no check follows.
C2_PaidAfterKPlusOneChecks ==
    /\ nSleeps = nChecks + (IF pc = "poll_check" THEN 1 ELSE 0)
    /\ Elapsed = nSleeps * pollInterval + delayed
    /\ nPaid <= 1
    /\ nPaid = 1 =>
          /\ ~Polling
          /\ pc \in {"publish_paid", "done"}
          /\ Printed(PaidLine)
          /\ ~Printed(TimeoutLine)
          /\ exitCode # Some(1)

\* two unpaid checks, then a paid one, and the command has returned
C2_Witness ==
    /\ pc = "done"
    /\ nPaid = 1
    /\ nChecks = 3
    /\ nSleeps = 3

\* C3: while no status check reports paid the poll loop starts no iteration once the
\* elapsed time has reached the timeout: at most timeout / interval checks are made,
\* the loop ends in the payment timeout report and exit code 1, and nothing is
\* published to relays.
C3_TimeoutEndsUnpaidPoll ==
    /\ pc = "poll_check" => (now - pollInterval) - startTime < timeout
    /\ nChecks * pollInterval <= timeout
    /\ (pc = "poll_head" /\ Elapsed >= timeout) => ENABLED PollTimeout /\ ~ENABLED PollSleep
    /\ Printed(TimeoutLine) =>
          /\ Elapsed >= timeout
          /\ nPaid = 0
          /\ pc = "exited"
          /\ exitCode = Some(1)
          /\ out[Len(out)] = TimeoutLine
          /\ publishes = <<>>

\* the poll window was used up: every check said unpaid and the timeout was reported
C3_Witness ==
    /\ Printed(TimeoutLine)
    /\ pc = "exited"
    /\ nChecks * pollInterval = timeout

\* C4: a record is published to relays only after the backend accepted the submission:
\* the submit returned success with no payment required, or a status check reported
\* paid.
C4_PublishOnlyAfterAccepted ==
    (cmd \in {"register", "claim"} /\ (Publishing \/ publishes # <<>>)) =>
        /\ result # None
        /\ ~PaymentRequired \/ nPaid >= 1

ClaimSucceeded ==
    /\ cmd = "claim"
    /\ pc = "done"
    /\ result # None
    /\ nPaid = 1 \/ TruthyBool(result[1].claimed)

IsKind0For(e, name) ==
    /\ e.kind = 0
    /\ <<"nip05", Nip05(name)>> \in Range(e.content)
    /\ \E i \in Indices(e.content) : e.content[i][1] = "name"

\* C5 as stated: a claim that succeeded, paid or free, has published a kind 0
\* metadata record for the claimed name to relays before it finished.
C5_ClaimAlwaysPublishesKind0 ==
    ClaimSucceeded =>
        /\ exitCode = Some(0)
        /\ \E i \in Indices(publishes) : IsKind0For(publishes[i].event, options.name)

\* C5 amended: a claim that succeeded, paid or free, ends with exit code 0 having
\* published, unless --skip-kind0 was given, exactly one record, the kind 0 metadata
\* record for the claimed name, to the default relays and the user's; with
\* --skip-kind0 it has published nothing. A register that was paid has published
\* exactly one record, its profile record.
C5_ClaimPublishesKind0UnlessSkipped ==
    /\ ClaimSucceeded =>
          /\ exitCode = Some(0)
          /\ IF options.skipKind0
             THEN publishes = <<>>
             ELSE /\ Len(publishes) = 1
                  /\ IsKind0For(publishes[1].event, options.name)
                  /\ publishes[1].relays = DEFAULT_RELAYS \o options.relay
    /\ (cmd = "register" /\ pc = "done" /\ nPaid = 1) =>
          /\ exitCode = Some(0)
          /\ Len(publishes) = 1
          /\ publishes[1].event.kind = 31337

\* a paid claim without --skip-kind0 has returned after publishing its kind 0 record
C5_Witness ==
    /\ ClaimSucceeded
    /\ nPaid = 1
    /\ ~options.skipKind0
    /\ Len(publishes) = 1
    /\ publishes[1].event.kind = 0

DisabledLine == "Registration is currently disabled."

\* C14: when the backend answers register's submit with HTTP 503 the command reports
\* 'Registration is currently disabled.' and exits with code 1, and that message is
\* printed for no other failed request.
C14_DisabledBackendReportedDistinctly ==
    cmd = "register" =>
        /\ httpStatus = 503 =>
              /\ pc = "exited"
              /\ exitCode = Some(1)
              /\ out = <<DisabledLine>>
        /\ httpStatus # 503 => ~Printed(DisabledLine)

\* the lines that report the endpoints a publish returned
ReportOf(list) == {"Published to: " \o JoinList(list), "Kind 0 published to " \o JoinList(list)}

\* C15: a relay publish never makes a command fail, however many endpoints failed:
\* register, claim and publish, once publishToRelays has returned, report exactly the
\* endpoints that accepted the record (possibly none) and finish with exit code 0.
C15_RelayFailuresNeverFailCommand ==
    publishes # <<>> =>
        /\ pc = "done"
        /\ exitCode = Some(0)
        /\ Len(publishes) = 1
        /\ \E i \in Indices(out) : out[i] \in ReportOf(publishes[1].published)

\* C18: every publish of register, claim and publish goes to the two default relays,
\* wss://nos.lol then wss://relay.damus.io, followed by the --relay values in the order
\* given; a --relay value never replaces or drops a default.
C18_DefaultsThenUserRelays ==
    \A i \in Indices(publishes) :
        LET rl == publishes[i].relays
        IN  /\ Len(rl) = 2 + Len(options.relay)
            /\ rl[1] = "wss://nos.lol"
            /\ rl[2] = "wss://relay.damus.io"
            /\ \A k \in Indices(options.relay) : rl[2 + k] = options.relay[k]

\* publish was run with two different --relay values and has published to the two
\* defaults and then to them, in the order given
C18_Witness ==
    /\ cmd = "publish"
    /\ pc = "done"
    /\ options.relay = <<"wss://relay.other", "wss://relay.example">>
    /\ Len(publishes) = 1
    /\ publishes[1].relays = <<"wss://nos.lol", "wss://relay.damus.io",
                               "wss://relay.other", "wss://relay.example">>

\* the republished content has every field of the stored record, lud16 apart, with
\* its value, and lud16 with the new value
KeepsFieldsAndSets(old, new, lud16) ==
    /\ HasKey(new, "lud16") /\ Get(new, "lud16") = lud16
    /\ \A i \in Indices(old) :
          old[i][1] # "lud16" => HasKey(new, old[i][1]) /\ Get(new, old[i][1]) = old[i][2]

Readable == stored # <<>> /\ ~JsonParse(stored[1].content).threw

\* C21: when the author has a kind 0 record and updateKind0 is given a new lud16, the
\* record it republishes is of kind 0 and its content holds every field of the
\* existing record, with lud16 set to the new value, whether the relay query or its
\* 5-second timer finished first (a query that failed is left aside).
C21_RepublishKeepsExistingFields ==
    (republished # None /\ query # "rejected" /\ Readable /\ TruthyStr(updates.lud16)) =>
        /\ republished[1].kind = 0
        /\ KeepsFieldsAndSets(JsonParse(stored[1].content).value,
                              republished[1].content, updates.lud16[1])

OptionalKind0Fields == {"about", "nip05", "picture", "lud16"}
KeysOf(obj) == {obj[i][1] : i \in Indices(obj)}
OwnerTag(p) == <<"p", p.ownerPubkeyHex[1], "", "owner">>

\* C22: the record createKind0Event builds is of kind 0; its content is an object
\* whose first member is name, and whose other members are exactly those of about,
\* nip05, picture and lud16 that are present (given and not empty), each once with
\* the given value; its tags are the bot tag if the bot flag is set and one owner
\* reference tag if an owner public key is given, in that order, and no other: with
\* neither the tag list is empty.
C22_Kind0ContentAndTags ==
    event # None /\ profile \in Kind0Profiles =>
        LET e == event[1]
            present == {f \in OptionalKind0Fields : TruthyStr(profile[f])}
            bot == TruthyBool(profile.bot)
            owner == TruthyStr(profile.ownerPubkeyHex)
        IN  /\ e.kind = 0
            /\ e.content[1] = <<"name", profile.name>>
            /\ KeysOf(e.content) = {"name"} \cup present
            /\ Len(e.content) = 1 + Cardinality(present)
            /\ \A i \in 2..Len(e.content) : e.content[i][2] = profile[e.content[i][1]][1]
            /\ Len(e.tags) = (IF bot THEN 1 ELSE 0) + (IF owner THEN 1 ELSE 0)
            /\ bot => e.tags[1] = <<"bot">>
            /\ owner => e.tags[Len(e.tags)] = OwnerTag(profile)

\* a record built with about and lud16 present, nip05 empty, picture absent, the bot
\* flag and an owner key
C22_Witness ==
    /\ event # None
    /\ profile \in Kind0Profiles
    /\ profile.nip05 = Some("") /\ profile.picture = None
    /\ event[1].content = << <<"name", "Echo">>, <<"about", "a bot">>,
                             <<"lud16", "new@ln.example">> >>
    /\ event[1].tags = << <<"bot">>, <<"p", "ab12", "", "owner">> >>

InvoicePaidLine == "Invoice paid!"
\* the lines that report a register or a claim as done
SuccessLines ==
    {"Registered!", "Registered on agentdex", "Registered on agentdex (free tier)",
     Nip05(options.name) \o " is now active!",
     "Kind 0 published - NIP-05 active on all Nostr clients"}

\* C23: once payInvoice has succeeded ('Invoice paid!' is printed) the command is in
\* the poll loop; as long as no status check has reported paid it has printed no
\* success line, published no record and not ended with exit code 0, and it goes on to
\* publish or ends successfully only after a status check that reported paid.
C23_AutoPayAloneNeverCompletes ==
    \A i \in Indices(out) :
        out[i] = InvoicePaidLine =>
            /\ nPayCalls = 1 /\ payStage = "returned"
            /\ pc \in {"poll_head", "poll_check", "publish_paid", "done", "exited"}
            /\ Len(out) = i => Polling /\ exitCode = None
            /\ nPaid = 0 =>
                  /\ Range(out) \cap SuccessLines = {}
                  /\ publishes = <<>>
                  /\ exitCode # Some(0)
                  /\ pc \in {"poll_head", "poll_check", "exited"}
            /\ pc \in {"publish_paid", "done"} => nPaid = 1 /\ nChecks >= 1

\* after a successful auto-pay a first status check reported pending, a second paid,
\* and the command published and returned
C23_Witness ==
    /\ Printed(InvoicePaidLine)
    /\ nPayCalls = 1
    /\ nChecks = 2 /\ nPaid = 1
    /\ pc = "done" /\ exitCode = Some(0)
    /\ Len(publishes) = 1

CeilDiv(a, b) == (a + b - 1) \div b

\* C24: the poll loop tests its deadline before each sleep and not after it: it makes
\* at most ceil(timeout / interval) = 300 status checks; a check starts one sleep after
\* a test that found the deadline not reached, so it can start at or after the
\* deadline, less than one interval late; and once a check has reported paid, however
\* late it started, the command goes on to success: it is publishing or done, has not
\* printed the timeout and does not exit with code 1.
C24_DeadlineTestedBeforeSleep ==
    /\ CeilDiv(timeout, pollInterval) = 300
    /\ nChecks <= CeilDiv(timeout, pollInterval)
    /\ pc = "poll_check" =>
          /\ nSleeps = nChecks + 1
          /\ (now - pollInterval) - startTime < timeout
          /\ now - startTime < timeout + pollInterval + delayed
    /\ nPaid >= 1 =>
          /\ pc \in {"publish_paid", "done"}
          /\ exitCode # Some(1)
          /\ ~Printed(TimeoutLine)

\* the 300th check started when the deadline had passed (900 seconds after the loop
\* started, no check having taken time), reported paid, and the command succeeded
C24_Witness ==
    /\ nChecks = 300 /\ nSleeps = 300
    /\ delayed = 0
    /\ now - startTime = timeout
    /\ nPaid = 1
    /\ pc = "done" /\ exitCode = Some(0)
    /\ ~Printed(TimeoutLine)

\* C25: in claim, when the backend's answer is neither claimed nor awaiting_payment
\* with an invoice, the command ends at once: it does not poll, makes no pay call,
\* publishes nothing, prints no report of success or failure, and returns with exit
\* code 0.
C25_UnrecognisedClaimAnswerEndsSilently ==
    (/\ cmd = "claim" /\ result # None
     /\ ~TruthyBool(result[1].claimed)
     /\ ~(result[1].status = Some("awaiting_payment") /\ TruthyStr(result[1].invoice))) =>
        /\ pc = "done"
        /\ exitCode = Some(0)
        /\ out = <<>>
        /\ publishes = <<>>
        /\ nSleeps = 0 /\ nChecks = 0 /\ nPayCalls = 0
        /\ payStage = "idle"

\* a claim answered 402 with a body that has no invoice has returned
C25_Witness ==
    /\ cmd = "claim"
    /\ httpStatus = 402
    /\ result # None
    /\ result[1].status = Some("awaiting_payment") /\ result[1].invoice = None
    /\ pc = "done"
    /\ exitCode = Some(0)
    /\ out = <<>>

PayFailedLine == "NWC payment failed"

FreeSuccess == result # None /\ httpStatus = 200 /\ ~PaymentRequired

C20_ClaimManualInvoiceThenPoll ==
    (/\ cmd = "claim" /\ ~options.nwc /\ result # None
     /\ PaymentRequired /\ TruthyStr(result[1].invoice)) =>
        /\ Len(out) >= 3
        /\ SubSeq(out, 2, 3) = <<"qr: " \o result[1].invoice[1],
                                 "bolt11: " \o result[1].invoice[1]>>
        /\ nPayCalls = 0 /\ payStage = "idle"
        /\ ~Printed(PayFailedLine) /\ ~Printed("Invoice paid!")
        /\ pc \in {"poll_head", "poll_check", "publish_paid", "done", "exited"}
        /\ Len(out) = 3 => Polling /\ exitCode = None
        /\ (nSleeps = 0 /\ nChecks = 0) => pc = "poll_head" /\ startTime = now
        /\ ~Polling => nChecks >= 1

\* the invoice was shown without a pay attempt and the loop has made two checks
C20_Witness ==
    /\ cmd = "claim" /\ ~options.nwc
    /\ PaymentRequired /\ TruthyStr(result[1].invoice)
    /\ out = <<"fee", "qr: lnbc1", "bolt11: lnbc1">>
    /\ pc = "poll_head"
    /\ nChecks = 2
    /\ nPayCalls = 0


\* C6: when the wallet-connect payment fails the command goes on: the failure line is
\* followed by the manual presentation of the invoice (QR code, then raw bolt11 text)
\* and the poll loop is entered, with no pay call repeated; if the command later
\* exits with code 1 it does so out of the poll loop.
C6_PayFailureFallsBackToManual ==
    \A i \in Indices(out) :
        out[i] = PayFailedLine =>
            /\ options.nwc /\ nPayCalls = 1
            /\ Len(out) >= i + 3
            /\ SubSeq(out, i + 1, i + 3)
                  = <<"Pay manually:">> \o ShowInvoice(result[1].invoice[1])
            /\ pc \in {"poll_head", "poll_check", "publish_paid", "done", "exited"}
            /\ Len(out) = i + 3 => Polling /\ exitCode = None
            /\ exitCode = Some(1) => nSleeps >= 1

\* the payment failed, the invoice was shown and a status check was made
C6_Witness ==
    /\ Printed(PayFailedLine)
    /\ options.nwc
    /\ nChecks >= 1
    /\ pc = "poll_head"

=============================================================================
